---- MODULE Spec2Model ----
(***************************************************************************)
(* A model of the sales-call transcript pipeline: the text chunker         *)
(* (src/src/utils.py), the vector-store layer (src/src/storage.py), the    *)
(* generation layer (src/src/generation.py) and the orchestrator           *)
(* (src/src/copilot.py).                                                   *)
(*                                                                         *)
(* Texts are sequences of one-character strings, so that slicing, rfind    *)
(* and strip are computed as Python computes them.                         *)
(***************************************************************************)
EXTENDS Integers, Sequences, FiniteSets, TLC

-----------------------------------------------------------------------------
(* Bounds of the model *)

\* longest text handed to chunk_text in SpecChunk
MaxLen == 5
\* largest chunk_size and overlap handed to chunk_text in SpecChunk
MaxChunk == 4
\* iterations of a non-advancing loop followed before the model stops looking
MaxStall == 2
\* largest top_k handed to search_chunks
MaxTopK == 2

-----------------------------------------------------------------------------
(* Python helpers *)

Min(a, b) == IF a < b THEN a ELSE b
Max(a, b) == IF a > b THEN a ELSE b

\* the characters str.strip() removes, among those the model uses
IsSpace(c) == c \in {" ", "\n"}

\* a slice index as Python adjusts it: negative counts from the end, then clamped
PyIndex(i, n) == IF i < 0 THEN Max(i + n, 0) ELSE Min(i, n)

\* text[s:e]
PySlice(text, s, e) ==
  LET a == PyIndex(s, Len(text))
      b == PyIndex(e, Len(text))
  IN  IF a < b THEN SubSeq(text, a + 1, b) ELSE << >>

\* text.rfind(sub, s, e) for a non-empty sub: the highest 0-based index i with
\* s <= i, i + len(sub) <= e and text[i:i+len(sub)] == sub, or -1
\* (k counts the candidates down from the highest one)
PyRfind(text, sub, s, e) ==
  LET a == PyIndex(s, Len(text))
      top == PyIndex(e, Len(text)) - Len(sub)
      match(i) == \A k \in 1 .. Len(sub) : text[i + k] = sub[k]
      first(k) == match(top - k) /\ \A j \in 0 .. (k - 1) : ~match(top - j)
  IN  IF \E k \in 0 .. (top - a) : match(top - k)
      THEN top - (CHOOSE k \in 0 .. (top - a) : first(k))
      ELSE -1

\* text.strip(): what lies between the first and the last character that is
\* not white space
PyStrip(text) ==
  LET n == Len(text)
      lead(k) == \A j \in 1 .. k : IsSpace(text[j])
      trail(k) == \A j \in 1 .. k : IsSpace(text[n + 1 - j])
  IN  IF lead(n) THEN << >>
      ELSE LET lo == CHOOSE k \in 0 .. (n - 1) : lead(k) /\ ~IsSpace(text[k + 1])
               hi == CHOOSE k \in 0 .. (n - 1) : trail(k) /\ ~IsSpace(text[n - k])
           IN  SubSeq(text, lo + 1, n - hi)

-----------------------------------------------------------------------------
(* chunk_text, src/src/utils.py *)

\* a mutant of Boundary: the earlier of the two, not the later
BoundaryMin(text, start, end) ==
  Min(PyRfind(text, <<"\n">>, start, end), PyRfind(text, <<".", " ">>, start, end))

\* the boundary the window [start, end) is cut at: the later of the last line
\* break and the last ". "
Boundary(text, start, end) ==
  Max(PyRfind(text, <<"\n">>, start, end), PyRfind(text, <<".", " ">>, start, end))

\* a mutant of ChunkEnd: the window is not clamped to the text
ChunkEndNoClamp(text, chunk_size, overlap, start) ==
  LET end == start + chunk_size
  IN  IF end < Len(text) /\ Boundary(text, start, end) > start + overlap
      THEN Boundary(text, start, end) + 1
      ELSE end

\* a mutant of ChunkEnd: any boundary after the cursor cuts the window
ChunkEndAnyBoundary(text, chunk_size, overlap, start) ==
  LET end == Min(start + chunk_size, Len(text))
  IN  IF end < Len(text) /\ Boundary(text, start, end) > start
      THEN Boundary(text, start, end) + 1
      ELSE end

\* the end of the chunk that starts at start (lines 20-28)
ChunkEnd(text, chunk_size, overlap, start) ==
  LET end == Min(start + chunk_size, Len(text))
  IN  IF end < Len(text) /\ Boundary(text, start, end) > start + overlap
      THEN Boundary(text, start, end) + 1
      ELSE end

\* a mutant of NextStart: the cursor is carried one character too far
NextStartSkip(text, overlap, end) ==
  IF end < Len(text) THEN end - overlap + 1 ELSE end

\* the cursor after a chunk that ends at end (line 30)
NextStart(text, overlap, end) ==
  IF end < Len(text) THEN end - overlap ELSE end

\* a mutant of ChunkDict: the text is cut one character late
ChunkDictShifted(text, start, end) ==
  [text |-> PySlice(text, start + 1, end), start |-> start, end |-> end]

\* the dict appended for the window [start, end) (line 29)
ChunkDict(text, start, end) ==
  [text |-> PySlice(text, start, end), start |-> start, end |-> end]

\* the whole loop, from a cursor and the chunks collected so far (lines 19-31);
\* defined for chunk_size > overlap >= 0, where the cursor advances
RECURSIVE ChunkLoop(_, _, _, _, _)
ChunkLoop(text, chunk_size, overlap, start, chunks) ==
  IF start < Len(text)
  THEN LET end == ChunkEnd(text, chunk_size, overlap, start)
       IN  ChunkLoop(text, chunk_size, overlap, NextStart(text, overlap, end),
                     Append(chunks, ChunkDict(text, start, end)))
  ELSE chunks

\* chunk_text(text, chunk_size, overlap) as a function (lines 14-31)
chunk_text(text, chunk_size, overlap) ==
  IF text = << >> THEN << >> ELSE ChunkLoop(text, chunk_size, overlap, 0, << >>)

-----------------------------------------------------------------------------
(* Strings of the storage layer, src/src/storage.py *)

\* the characters re.sub(r"[^a-zA-Z0-9_-]", "_", ...) keeps, in code-point order
IdChars ==
  <<"-", "0", "1", "2", "3", "4", "5", "6", "7", "8", "9",
    "A", "B", "C", "D", "E", "F", "G", "H", "I", "J", "K", "L", "M",
    "N", "O", "P", "Q", "R", "S", "T", "U", "V", "W", "X", "Y", "Z",
    "_",
    "a", "b", "c", "d", "e", "f", "g", "h", "i", "j", "k", "l", "m",
    "n", "o", "p", "q", "r", "s", "t", "u", "v", "w", "x", "y", "z">>

IsIdChar(c) == \E i \in 1 .. Len(IdChars) : IdChars[i] = c

\* the rank of a character of a call_id in code-point order
Ord(c) == CHOOSE i \in 1 .. Len(IdChars) : IdChars[i] = c

\* a < b for two call_ids, as Python compares str
StrLess(a, b) ==
  \E k \in 1 .. (Min(Len(a), Len(b)) + 1) :
    /\ \A j \in 1 .. (k - 1) : a[j] = b[j]
    /\ IF k > Len(a) THEN k <= Len(b)
       ELSE k <= Len(b) /\ Ord(a[k]) < Ord(b[k])

\* call_id = re.sub(r"[^a-zA-Z0-9_-]", "_", call_title) (line 47)
Sanitize(stem) == [i \in 1 .. Len(stem) |-> IF IsIdChar(stem[i]) THEN stem[i] ELSE "_"]

\* str(n) for n >= 0
RECURSIVE Digits(_)
Digits(n) ==
  IF n < 10 THEN <<IdChars[n + 2]>> ELSE Digits(n \div 10) \o <<IdChars[(n % 10) + 2]>>

\* chunk_id = f"{call_id}__{idx}" (line 60)
ChunkId(call_id, idx) == call_id \o <<"_", "_">> \o Digits(idx)

CHUNK_SIZE == 400
CHUNK_OVERLAP == 80

\* Optional[str] = None
None == <<"<None>">>

\* bool(x) of an Optional[str]
Truthy(x) == x # None /\ x # << >>

-----------------------------------------------------------------------------
(* The Chroma collection: chunk_id -> [document, metadata].  The calls the    *)
(* storage layer makes on it are modelled by their documented effect.         *)

EmptyCollection == [id \in {} |-> << >>]

\* a mutant of CollGetIds: the filter matches every call_id that begins with
\* the one given
CollGetIdsPrefix(coll, call_id) ==
  { id \in DOMAIN coll :
      /\ Len(coll[id].metadata.call_id) >= Len(call_id)
      /\ SubSeq(coll[id].metadata.call_id, 1, Len(call_id)) = call_id }

\* collection.get(where={"call_id": call_id})["ids"] (lines 52, 137-140)
CollGetIds(coll, call_id) ==
  { id \in DOMAIN coll : coll[id].metadata.call_id = call_id }

\* a mutant of CollDelete: only one of the ids is removed
CollDeleteOne(coll, ids) ==
  IF ids = {} THEN coll
  ELSE LET victim == CHOOSE id \in ids : TRUE
       IN  [id \in (DOMAIN coll) \ {victim} |-> coll[id]]

\* collection.delete(ids=ids) (line 54)
CollDelete(coll, ids) == [id \in (DOMAIN coll) \ ids |-> coll[id]]

\* collection.add(documents, metadatas, ids) for a non-empty batch (line 71):
\* a record whose id is already stored is left as it is
CollAdd(coll, documents, metadatas, ids) ==
  LET new == { i \in 1 .. Len(ids) : ids[i] \notin DOMAIN coll }
      at(id) == CHOOSE i \in new : ids[i] = id
  IN  [id \in (DOMAIN coll) \cup { ids[i] : i \in new } |->
         IF id \in DOMAIN coll THEN coll[id]
         ELSE [document |-> documents[at(id)], metadata |-> metadatas[at(id)]]]

\* the metadata dict of chunk idx (lines 62-68)
Metadata(call_id, call_title, idx, chunk_data) ==
  [call_id |-> call_id, call_title |-> call_title, chunk_index |-> idx,
   start_char |-> chunk_data.start, end_char |-> chunk_data.end]

\* a mutant of IngestBatch: the chunks are numbered from 1
IngestBatchFromOne(call_id, call_title, raw_chunks) ==
  [documents |-> [i \in 1 .. Len(raw_chunks) |-> raw_chunks[i].text],
   metadatas |-> [i \in 1 .. Len(raw_chunks) |->
                    Metadata(call_id, call_title, i, raw_chunks[i])],
   ids       |-> [i \in 1 .. Len(raw_chunks) |-> ChunkId(call_id, i)]]

\* the three lists ingest_transcript builds from raw_chunks (lines 56-69);
\* enumerate() counts from 0, sequences from 1
IngestBatch(call_id, call_title, raw_chunks) ==
  [documents |-> [i \in 1 .. Len(raw_chunks) |-> raw_chunks[i].text],
   metadatas |-> [i \in 1 .. Len(raw_chunks) |->
                    Metadata(call_id, call_title, i - 1, raw_chunks[i])],
   ids       |-> [i \in 1 .. Len(raw_chunks) |-> ChunkId(call_id, i - 1)]]

\* the TranscriptChunk built from a stored record (lines 120-128, 144-152)
TranscriptChunk(coll, id) ==
  [chunk_id |-> id,
   call_id |-> coll[id].metadata.call_id,
   call_title |-> coll[id].metadata.call_title,
   chunk_index |-> coll[id].metadata.chunk_index,
   text |-> coll[id].document,
   start_char |-> coll[id].metadata.start_char,
   end_char |-> coll[id].metadata.end_char]

\* sorted(chunks, key=lambda c: c.chunk_index) over a set of chunks
RECURSIVE SortByIndex(_)
SortByIndex(chunks) ==
  IF chunks = {} THEN << >>
  ELSE LET first == CHOOSE c \in chunks :
                      \A d \in chunks : c.chunk_index <= d.chunk_index
       IN  <<first>> \o SortByIndex(chunks \ {first})

\* get_all_chunks_for_call(call_id) (lines 134-153)
get_all_chunks_for_call(coll, call_id) ==
  SortByIndex({ TranscriptChunk(coll, id) : id \in CollGetIds(coll, call_id) })

\* sorted(calls) over a set of call_ids
RECURSIVE SortStr(_)
SortStr(ids) ==
  IF ids = {} THEN << >>
  ELSE LET first == CHOOSE a \in ids : \A b \in ids : a = b \/ StrLess(a, b)
       IN  <<first>> \o SortStr(ids \ {first})

\* a mutant of get_call_ids: the ids come back in descending order
get_call_ids_descending(coll) ==
  [i \in 1 .. Cardinality({ coll[id].metadata.call_id : id \in DOMAIN coll }) |->
     SortStr({ coll[id].metadata.call_id : id \in DOMAIN coll })
       [Cardinality({ coll[id].metadata.call_id : id \in DOMAIN coll }) + 1 - i]]

\* get_call_ids() (lines 75-86)
get_call_ids(coll) == SortStr({ coll[id].metadata.call_id : id \in DOMAIN coll })

\* get_latest_call_id() (lines 89-92)
get_latest_call_id(coll) ==
  LET ids == get_call_ids(coll) IN IF ids = << >> THEN None ELSE ids[Len(ids)]

\* the ids collection.query may search: where = {"call_id": call_id} if call_id
\* else None (line 105)
QueryCandidates(coll, call_id) ==
  IF Truthy(call_id) THEN CollGetIds(coll, call_id) ELSE DOMAIN coll

\* every result list search_chunks(query, call_id, top_k) can return: the
\* embedding decides which of the candidates are the top_k nearest and in which
\* order, so each choice of min(top_k, #candidates) distinct candidates is one
\* outcome; distances ascend with the rank (lines 95-131)
SearchOutcomes(coll, call_id, top_k) ==
  LET cand == QueryCandidates(coll, call_id)
      n == Min(top_k, Cardinality(cand))
      picks == { f \in [1 .. n -> cand] : \A i, j \in 1 .. n : f[i] = f[j] => i = j }
  IN  { [i \in 1 .. n |-> [chunk |-> TranscriptChunk(coll, f[i]), distance |-> i]] :
        f \in picks }

-----------------------------------------------------------------------------
(* The generation layer, src/src/generation.py *)

\* values of LLM_PROVIDER; "<unset>" is the variable not being set
EnvProviders == {"<unset>", "Groq", "ollama", "gemini", "azure"}

\* os.getenv("LLM_PROVIDER", "openai").lower() (lines 16, 39)
ProviderOf(e) ==
  CASE e.provider = "<unset>" -> "openai"
    [] e.provider = "Groq" -> "groq"
    [] OTHER -> e.provider

\* the model name _get_provider_info reads for a provider (lines 19-28)
ModelOf(provider) == <<"model of", provider>>

NoClient == [sdk |-> "None", backend |-> "None"]
NoModel == <<"None">>

\* the client _ensure_client constructs for a provider (lines 47-57)
ClientFor(provider) ==
  [sdk |-> IF provider = "gemini" THEN "genai" ELSE "OpenAI", backend |-> provider]

\* _get_provider_info() once the provider is read: the provider, its model
\* and whether a key was found; ollama's key is the dummy "ollama" (lines 17-33)
provider_info(provider, keys) ==
  IF provider \in {"openai", "groq", "ollama", "gemini"}
  THEN [raise |-> "none", provider |-> provider, model |-> ModelOf(provider),
        key |-> provider = "ollama" \/ provider \in keys]
  ELSE [raise |-> "ValueError"]

\* _get_provider_info() (lines 14-33)
get_provider_info(e) == provider_info(ProviderOf(e), e.keys)

\* _ensure_client() when no client is cached: _model_name is set before the
\* key is checked (lines 42-59)
create_client(info, client, model) ==
  IF info.raise # "none"
  THEN [raise |-> "ValueError", client |-> client, model |-> model]
  ELSE IF ~info.key /\ info.provider # "ollama"
  THEN [raise |-> "ValueError", client |-> client, model |-> info.model]
  ELSE [raise |-> "none", client |-> ClientFor(info.provider),
        model |-> info.model, provider |-> info.provider]

\* _ensure_client(): what it raises or returns, and the globals it leaves; a
\* cached client is returned with the provider the environment names now
\* (lines 35-59)
ensure_client(e, client, model) ==
  IF client # NoClient
  THEN [raise |-> "none", client |-> client, model |-> model, provider |-> ProviderOf(e)]
  ELSE create_client(get_provider_info(e), client, model)

\* no request was sent to a backend, so none was answered
NoRequest == [api |-> "none"]
NoReply == [raise |-> "no request"]

\* what the backend does with a request: it answers with a text or fails
LLMReplies ==
  { [raise |-> "APIError"],
    [raise |-> "none", text |-> <<" ", "O", "k", ".", "\n">>],
    [raise |-> "none", text |-> << >>] }

\* the body of _call_llm once _ensure_client has answered with ec: the request
\* the provider's branch sends, and what comes of the reply (lines 87-108)
dispatch(ec, system_prompt, user_prompt, temperature, reply) ==
  LET sent(api) == [api |-> api, backend |-> ec.client.backend, model |-> ec.model,
                    system |-> system_prompt, user |-> user_prompt,
                    temperature |-> temperature]
      done(api) ==
        IF reply.raise # "none"
        THEN [raise |-> reply.raise, request |-> sent(api), replied |-> reply,
              events |-> <<"llm">>, client |-> ec.client, model |-> ec.model]
        ELSE [raise |-> "none", text |-> PyStrip(reply.text), request |-> sent(api),
              replied |-> reply, events |-> <<"llm">>,
              client |-> ec.client, model |-> ec.model]
      broken == [raise |-> "AttributeError", request |-> NoRequest, replied |-> NoReply,
                 events |-> << >>, client |-> ec.client, model |-> ec.model]
  IN  IF ec.raise # "none"
      THEN [raise |-> ec.raise, request |-> NoRequest, replied |-> NoReply,
            events |-> <<"config error">>, client |-> ec.client, model |-> ec.model]
      ELSE IF ec.provider \in {"openai", "groq", "ollama"}
      THEN (IF ec.client.sdk = "OpenAI" THEN done("chat.completions.create") ELSE broken)
      ELSE IF ec.provider = "gemini"
      THEN (IF ec.client.sdk = "genai" THEN done("models.generate_content") ELSE broken)
      ELSE [raise |-> "none", text |-> << >>, request |-> NoRequest, replied |-> NoReply,
            events |-> << >>, client |-> ec.client, model |-> ec.model]

\* _call_llm(system_prompt, user_prompt, temperature) when the backend would
\* react to a request with reply (lines 83-108)
call_llm(e, client, model, system_prompt, user_prompt, temperature, reply) ==
  dispatch(ensure_client(e, client, model), system_prompt, user_prompt,
           temperature, reply)

\* LLMProvider.generate_content of the provider injected into SalesCopilot: an
\* interface, so the reply is what it returns or raises
generate_content(system_prompt, user_prompt, temperature, reply) ==
  IF reply.raise # "none"
  THEN [raise |-> reply.raise, events |-> <<"llm">>, replied |-> reply,
        request |-> [api |-> "generate_content", system |-> system_prompt,
                     user |-> user_prompt, temperature |-> temperature]]
  ELSE [raise |-> "none", text |-> reply.text, events |-> <<"llm">>, replied |-> reply,
        request |-> [api |-> "generate_content", system |-> system_prompt,
                     user |-> user_prompt, temperature |-> temperature]]

-----------------------------------------------------------------------------
(* The orchestrator: SalesCopilot (src/src/copilot.py) and the module-level    *)
(* functions of src/src/generation.py, which run the same steps               *)

FallbackAnswer ==
  "I could not find any relevant information in the stored transcripts."
NoTranscriptAnswer(call_id) == <<"No transcript found for '", call_id, "'.">>
QASystemPrompt ==
  "You are a sales-call analyst AI. Your job is to answer using ONLY the transcript excerpts provided. Cite facts using [Source N]."
SummarySystemPrompt ==
  "You are an expert sales-call analyst. Summarise the transcript with: Overview, Key Discussion Points, Sentiment/Objections, Next Steps, and Pricing."

\* _format_context(results): one numbered entry per result (copilot.py lines
\* 10-18, generation.py lines 66-74)
format_context(results) ==
  [i \in 1 .. Len(results) |->
     [source |-> i, call |-> results[i].chunk.call_title,
      chunk |-> results[i].chunk.chunk_index, text |-> PyStrip(results[i].chunk.text)]]

\* "\n".join(c.text for c in chunks) (copilot.py lines 20-23, generation.py 77-80)
RECURSIVE JoinLines(_)
JoinLines(chunks) ==
  IF chunks = << >> THEN << >>
  ELSE IF Len(chunks) = 1 THEN chunks[1].text
  ELSE chunks[1].text \o <<"\n">> \o JoinLines(Tail(chunks))

\* the generation step of either implementation; gen is the state of the
\* generation module, which only the module-level functions use
Generate(impl, gen, system_prompt, user_prompt, temperature, reply) ==
  IF impl = "generation"
  THEN call_llm(gen.env, gen.client, gen.model, system_prompt, user_prompt,
                temperature, reply)
  ELSE generate_content(system_prompt, user_prompt, temperature, reply)
       @@ [client |-> gen.client, model |-> gen.model]

\* a mutant of StoreFailed: the store is asked a second time
StoreFailedRetried(args, gen, error) ==
  args @@ [outcome |-> "raise", error |-> error, events |-> <<"store", "store">>,
           request |-> NoRequest, replied |-> NoReply,
           client |-> gen.client, model |-> gen.model]

\* the call ends with the error the store raised
StoreFailed(args, gen, error) ==
  args @@ [outcome |-> "raise", error |-> error, events |-> <<"store">>,
           request |-> NoRequest, replied |-> NoReply,
           client |-> gen.client, model |-> gen.model]

\* the call returns a fixed answer without a generation step
NotGenerated(args, gen, answer) ==
  args @@ [outcome |-> "return", answer |-> answer, sources |-> << >>,
           events |-> <<"store">>, request |-> NoRequest, replied |-> NoReply,
           client |-> gen.client, model |-> gen.model]

\* the call ends as its generation step g ended
Generated(args, sources, g) ==
  IF g.raise # "none"
  THEN args @@ [outcome |-> "raise", error |-> g.raise,
                events |-> <<"store">> \o g.events, request |-> g.request,
                replied |-> g.replied,
                client |-> g.client, model |-> g.model]
  ELSE args @@ [outcome |-> "return", answer |-> g.text, sources |-> sources,
                events |-> <<"store">> \o g.events, request |-> g.request,
                replied |-> g.replied,
                client |-> g.client, model |-> g.model]

\* what a call was given: its arguments, the state of the generation module
\* when it began, and what the store answered
AnswerArgs(impl, gen, query, call_id, top_k, search) ==
  [op |-> "answer_question", impl |-> impl, before |-> gen, query |-> query,
   call_id |-> call_id, top_k |-> top_k, retrieved |-> search]

\* a mutant of AnswerQuestion: an empty retrieval is sent to the backend too
AnswerQuestionNoFallback(impl, gen, query, call_id, top_k, search, reply) ==
  IF search.raise # "none"
  THEN StoreFailed(AnswerArgs(impl, gen, query, call_id, top_k, search), gen, search.raise)
  ELSE Generated(AnswerArgs(impl, gen, query, call_id, top_k, search), search.value,
                 Generate(impl, gen, QASystemPrompt,
                          [context |-> format_context(search.value), question |-> query],
                          "0.2", reply))

\* answer_question(query, call_id, top_k) when the store reacts with search and
\* the backend with reply: how the call ends, the calls it made in order, and
\* the globals of the generation module afterwards (copilot.py lines 25-44,
\* generation.py lines 115-133)
AnswerQuestion(impl, gen, query, call_id, top_k, search, reply) ==
  IF search.raise # "none"
  THEN StoreFailed(AnswerArgs(impl, gen, query, call_id, top_k, search), gen, search.raise)
  ELSE IF search.value = << >>
  THEN NotGenerated(AnswerArgs(impl, gen, query, call_id, top_k, search), gen, FallbackAnswer)
  ELSE Generated(AnswerArgs(impl, gen, query, call_id, top_k, search), search.value,
                 Generate(impl, gen, QASystemPrompt,
                          [context |-> format_context(search.value), question |-> query],
                          "0.2", reply))

SummariseArgs(impl, gen, call_id, fetched) ==
  [op |-> "summarise_call", impl |-> impl, before |-> gen, call_id |-> call_id,
   retrieved |-> fetched]

\* summarise_call once the chunks are joined into transcript
SummariseText(impl, gen, call_id, fetched, transcript, reply) ==
  IF PyStrip(transcript) = << >>
  THEN NotGenerated(SummariseArgs(impl, gen, call_id, fetched), gen,
                    NoTranscriptAnswer(call_id))
  ELSE Generated(SummariseArgs(impl, gen, call_id, fetched), << >>,
                 Generate(impl, gen, SummarySystemPrompt,
                          [transcript |-> transcript], "0.3", reply))

\* summarise_call(call_id) when the store reacts with fetched and the backend
\* with reply (copilot.py lines 46-55, generation.py lines 136-145)
SummariseCall(impl, gen, call_id, fetched, reply) ==
  IF fetched.raise # "none"
  THEN StoreFailed(SummariseArgs(impl, gen, call_id, fetched), gen, fetched.raise)
  ELSE SummariseText(impl, gen, call_id, fetched, JoinLines(fetched.value), reply)

-----------------------------------------------------------------------------
(* State *)

VARIABLES
  \* one call of chunk_text, followed iteration by iteration
  c_pc,        \* "call" | "loop" | "done"
  c_entry,     \* "none" | "chunk_text" | "process_file"
  c_text,      \* the text argument
  c_size,      \* chunk_size
  c_overlap,   \* overlap
  c_start,     \* the cursor
  c_chunks,    \* the list built so far
  \* the storage layer
  store,       \* the persistent Chroma collection
  ing,         \* per caller: the ingest_transcript call it is in, or was last in
  last,        \* what the read of the store just made returned; a step of
               \* ingest_transcript forgets it
  \* the generation layer and the orchestrator
  env,         \* the environment: LLM_PROVIDER and the API keys that are set
  g_client,    \* generation._client
  g_model,     \* generation._model_name
  resp         \* how the most recent answer_question or summarise_call ended

chunkVars == <<c_pc, c_entry, c_text, c_size, c_overlap, c_start, c_chunks>>
storeVars == <<store, ing, last>>
qaVars == <<env, g_client, g_model, resp>>
vars == <<chunkVars, storeVars, qaVars>>
\* what the storage layer never touches
offStore == <<chunkVars, qaVars>>

-----------------------------------------------------------------------------
(* The storage layer as a state machine *)

\* the callers that may run ingest_transcript
Procs == {1, 2}

\* a caller that has not called ingest_transcript yet
NoIngest ==
  [pc |-> "idle", result |-> "none", call_title |-> << >>, call_id |-> << >>,
   raw_text |-> << >>, existing |-> {}, ops |-> << >>, before |-> EmptyCollection,
   overlapped |-> FALSE]
\* pc, call_title, call_id, raw_text and existing are the locals of
\* ingest_transcript; the rest is kept for the properties: result is how the
\* call ended, ops the collection calls it issued, before the collection as it
\* was when the call began, overlapped whether another caller was inside an
\* ingest of the same call_id at some point of this call

\* the callers inside an ingest of call_id
Inside(call_id) ==
  { q \in Procs : ing[q].pc \in {"delete", "add"} /\ ing[q].call_id = call_id }

NoRead == [op |-> "none"]

NoResp == [op |-> "none"]

\* the generation layer before its first use, in an empty environment
QAOff ==
  /\ env = [provider |-> "<unset>", keys |-> {}]
  /\ g_client = NoClient
  /\ g_model = NoModel
  /\ resp = NoResp

\* the storage layer at rest on an empty collection (SpecChunk does not use it)
StoreIdle ==
  /\ store = EmptyCollection
  /\ ing = [p \in Procs |-> NoIngest]
  /\ last = NoRead

\* no call of chunk_text is being followed (the storage specifications)
ChunkOff ==
  /\ c_pc = "off"
  /\ c_entry = "none"
  /\ c_text = << >>
  /\ c_size = CHUNK_SIZE
  /\ c_overlap = CHUNK_OVERLAP
  /\ c_start = 0
  /\ c_chunks = << >>

\* file contents
Rep(unit, n) == [i \in 1 .. (n * Len(unit)) |-> unit[((i - 1) % Len(unit)) + 1]]

\* a file of white space only: nothing is left after strip()
T_blank == <<" ", "\n">>
\* a short transcript: one chunk
T_short == <<" ", "H", "i", ".", "\n">>
\* 455 characters in lines of seven: two chunks, the first cut at a line break
T_two == Rep(<<"a", ".", " ", "b", "c", "d", "\n">>, 65)

Contents == {T_blank, T_short, T_two}

\* file names without the extension (Path.stem); two of them give one call_id
Stems == { <<"a">>, <<"a", " ", "b">>, <<"a", "_", "b">> }

\* a mutant of IngestMissing: the collection is asked before the path is checked
IngestMissingAfterGet(p, stem) ==
  /\ ing[p].pc = "idle"
  /\ ing' = [ing EXCEPT ![p] =
       [NoIngest EXCEPT !.result = "FileNotFoundError", !.call_title = stem,
                        !.ops = <<"get">>, !.before = store]]
  /\ last' = NoRead
  /\ UNCHANGED <<store, offStore>>

\* ingest_transcript(file_path) on a path that does not exist (lines 39-41)
IngestMissing(p, stem) ==
  /\ ing[p].pc = "idle"
  /\ ing' = [ing EXCEPT ![p] =
       [NoIngest EXCEPT !.result = "FileNotFoundError", !.call_title = stem,
                        !.before = store]]
  /\ last' = NoRead
  /\ UNCHANGED <<store, offStore>>

\* ingest_transcript up to and including collection.get (lines 39-53)
IngestGet(p, stem, content) ==
  /\ ing[p].pc = "idle"
  /\ LET call_id == Sanitize(stem)
         existing == CollGetIds(store, call_id)
         mine == [pc |-> IF existing # {} THEN "delete" ELSE "add",
                  result |-> "running", call_title |-> stem, call_id |-> call_id,
                  raw_text |-> PyStrip(content), existing |-> existing,
                  ops |-> <<"get">>, before |-> store,
                  overlapped |-> Inside(call_id) # {}]
     IN  ing' = [q \in Procs |->
                   IF q = p THEN mine
                   ELSE IF q \in Inside(call_id)
                        THEN [ing[q] EXCEPT !.overlapped = TRUE]
                        ELSE ing[q]]
  /\ last' = NoRead
  /\ UNCHANGED <<store, offStore>>

\* collection.get raises: the error leaves ingest_transcript (line 52)
IngestGetRaises(p, stem, content) ==
  /\ ing[p].pc = "idle"
  /\ ing' = [ing EXCEPT ![p] =
       [NoIngest EXCEPT !.result = "UpstreamError", !.call_title = stem,
                        !.call_id = Sanitize(stem), !.raw_text = PyStrip(content),
                        !.ops = <<"get">>, !.before = store]]
  /\ last' = NoRead
  /\ UNCHANGED <<store, offStore>>

\* collection.delete(ids=existing["ids"]) (lines 53-54)
IngestDelete(p) ==
  /\ ing[p].pc = "delete"
  /\ store' = CollDelete(store, ing[p].existing)
  /\ ing' = [ing EXCEPT ![p].pc = "add", ![p].ops = Append(@, "delete")]
  /\ last' = NoRead
  /\ UNCHANGED offStore

\* collection.delete raises (line 54)
IngestDeleteRaises(p) ==
  /\ ing[p].pc = "delete"
  /\ ing' = [ing EXCEPT ![p].pc = "idle", ![p].result = "UpstreamError",
                        ![p].ops = Append(@, "delete")]
  /\ last' = NoRead
  /\ UNCHANGED <<store, offStore>>

\* the chunks are computed and added; collection.add refuses an empty batch
\* with a ValueError (lines 56-72)
IngestAdd(p) ==
  /\ ing[p].pc = "add"
  /\ LET raw_chunks == chunk_text(ing[p].raw_text, CHUNK_SIZE, CHUNK_OVERLAP)
         batch == IngestBatch(ing[p].call_id, ing[p].call_title, raw_chunks)
     IN  IF batch.ids = << >>
         THEN /\ store' = store
              /\ ing' = [ing EXCEPT ![p].pc = "idle", ![p].result = "ValueError",
                                    ![p].ops = Append(@, "add")]
         ELSE /\ store' = CollAdd(store, batch.documents, batch.metadatas, batch.ids)
              /\ ing' = [ing EXCEPT ![p].pc = "idle", ![p].result = "ok",
                                    ![p].ops = Append(@, "add")]
  /\ last' = NoRead
  /\ UNCHANGED offStore

\* collection.add raises for a reason of its own (line 71)
IngestAddRaises(p) ==
  /\ ing[p].pc = "add"
  /\ ing' = [ing EXCEPT ![p].pc = "idle", ![p].result = "UpstreamError",
                        ![p].ops = Append(@, "add")]
  /\ last' = NoRead
  /\ UNCHANGED <<store, offStore>>

\* the steps of ingest_transcript run by caller p
Ingest(p, stems, contents) ==
  \/ \E stem \in stems : IngestMissing(p, stem)
  \/ \E stem \in stems, content \in contents : IngestGet(p, stem, content)
  \/ \E stem \in stems, content \in contents : IngestGetRaises(p, stem, content)
  \/ IngestDelete(p)
  \/ IngestDeleteRaises(p)
  \/ IngestAdd(p)
  \/ IngestAddRaises(p)

\* the arguments the reads are called with
Queries == {"pricing"}
CallIdArgs == {None, << >>, <<"a">>, <<"a", "_", "b">>, <<"z">>}
TopKs == 1 .. MaxTopK

\* get_call_ids() returns (lines 75-86)
GetCallIds ==
  /\ last' = [op |-> "get_call_ids", outcome |-> "return",
              value |-> get_call_ids(store)]
  /\ UNCHANGED <<store, ing, offStore>>

\* get_latest_call_id() returns (lines 89-92)
GetLatestCallId ==
  /\ last' = [op |-> "get_latest_call_id", outcome |-> "return",
              value |-> get_latest_call_id(store)]
  /\ UNCHANGED <<store, ing, offStore>>

\* search_chunks(query, call_id, top_k) returns (lines 95-131)
SearchChunks(query, call_id, top_k) ==
  /\ \E results \in SearchOutcomes(store, call_id, top_k) :
       last' = [op |-> "search_chunks", outcome |-> "return", query |-> query,
                call_id |-> call_id, top_k |-> top_k, value |-> results]
  /\ UNCHANGED <<store, ing, offStore>>

\* get_all_chunks_for_call(call_id) returns (lines 134-153)
GetAllChunksForCall(call_id) ==
  /\ last' = [op |-> "get_all_chunks_for_call", outcome |-> "return",
              call_id |-> call_id, value |-> get_all_chunks_for_call(store, call_id)]
  /\ UNCHANGED <<store, ing, offStore>>

\* the collection call of a read raises: the error leaves the function
ReadRaises(op) ==
  /\ last' = [op |-> op, outcome |-> "raise", error |-> "UpstreamError"]
  /\ UNCHANGED <<store, ing, offStore>>

Read ==
  \/ GetCallIds
  \/ GetLatestCallId
  \/ \E q \in Queries, cid \in CallIdArgs, k \in TopKs : SearchChunks(q, cid, k)
  \/ \E cid \in CallIdArgs \ {None} : GetAllChunksForCall(cid)
  \/ \E op \in {"get_call_ids", "get_latest_call_id", "search_chunks",
                "get_all_chunks_for_call"} : ReadRaises(op)

StoreInit == StoreIdle /\ ChunkOff /\ QAOff

\* one caller ingests, step by step, and the store is read at any point
Next == Ingest(1, Stems, Contents) \/ Read

Spec == StoreInit /\ [][Next]_vars

RaceStems == { <<"a">> }
RaceContents == {T_blank, T_short, T_two}

RaceNext == \E p \in Procs : Ingest(p, RaceStems, RaceContents)

SpecRace == StoreInit /\ [][RaceNext]_vars

-----------------------------------------------------------------------------
(* SpecQA: questions and summaries over a collection earlier runs filled *)

\* ingest_transcript run to its end with no other caller and no failure
\* (storage.py lines 39-72)
StoreAfter(coll, stem, content) ==
  LET call_id == Sanitize(stem)
      cleared == CollDelete(coll, CollGetIds(coll, call_id))
      batch == IngestBatch(call_id, stem,
                           chunk_text(PyStrip(content), CHUNK_SIZE, CHUNK_OVERLAP))
  IN  IF batch.ids = << >> THEN cleared
      ELSE CollAdd(cleared, batch.documents, batch.metadatas, batch.ids)

\* the persistent collection as the process may find it at start
Store_a == StoreAfter(EmptyCollection, <<"a">>, T_short)
Store_ab == StoreAfter(Store_a, <<"a", " ", "b">>, T_two)
QAStores == { EmptyCollection, Store_a, Store_ab }

\* the sets of API keys that may be set
KeySets == { {}, {"openai", "groq", "gemini"} }
Envs == [provider : EnvProviders, keys : KeySets]

QACallIds == {None, <<"a">>, <<"z">>}

\* how the collection may react to search_chunks and get_all_chunks_for_call
SearchReactions(coll, call_id, top_k) ==
  { [raise |-> "ChromaError"] }
    \cup { [raise |-> "none", value |-> v] : v \in SearchOutcomes(coll, call_id, top_k) }

FetchReactions(coll, call_id) ==
  { [raise |-> "ChromaError"],
    [raise |-> "none", value |-> get_all_chunks_for_call(coll, call_id)] }

\* what a VectorStore injected into SalesCopilot may return: an interface, so
\* any list, here the lists a sample collection gives and chunks of white space
SampleStore == StoreAfter(Store_a, <<"z">>, T_short)
BlankChunk ==
  [chunk_id |-> <<"a", "_", "_", "0">>, call_id |-> <<"a">>, call_title |-> <<"a">>,
   chunk_index |-> 0, text |-> T_blank, start_char |-> 0, end_char |-> 2]

InjectedSearch(call_id, top_k) ==
  SearchReactions(SampleStore, call_id, top_k) \cup { [raise |-> "none", value |-> << >>] }

InjectedFetch(call_id) ==
  FetchReactions(SampleStore, call_id)
    \cup { [raise |-> "none", value |-> <<BlankChunk>>],
           [raise |-> "none", value |-> <<BlankChunk, BlankChunk>>] }

QAInit ==
  /\ ChunkOff
  /\ store \in QAStores
  /\ ing = [p \in Procs |-> NoIngest]
  /\ last = NoRead
  /\ env \in Envs
  /\ g_client = NoClient
  /\ g_model = NoModel
  /\ resp = NoResp

\* the environment is changed (LLM_PROVIDER, the API keys)
SetEnv(e) ==
  /\ env' = e
  /\ resp' = NoResp
  /\ UNCHANGED <<g_client, g_model, chunkVars, storeVars>>

Gen == [env |-> env, client |-> g_client, model |-> g_model]

\* generation.answer_question (lines 115-133)
GenAnswerQuestion(query, call_id, top_k) ==
  /\ \E search \in SearchReactions(store, call_id, top_k), reply \in LLMReplies :
       resp' = AnswerQuestion("generation", Gen, query, call_id, top_k, search, reply)
  /\ g_client' = resp'.client
  /\ g_model' = resp'.model
  /\ UNCHANGED <<env, chunkVars, storeVars>>

\* generation.summarise_call (lines 136-145)
GenSummariseCall(call_id) ==
  /\ \E fetched \in FetchReactions(store, call_id), reply \in LLMReplies :
       resp' = SummariseCall("generation", Gen, call_id, fetched, reply)
  /\ g_client' = resp'.client
  /\ g_model' = resp'.model
  /\ UNCHANGED <<env, chunkVars, storeVars>>

\* SalesCopilot.answer_question (copilot.py lines 25-44)
CopilotAnswerQuestion(query, call_id, top_k) ==
  /\ \E search \in InjectedSearch(call_id, top_k), reply \in LLMReplies :
       resp' = AnswerQuestion("copilot", Gen, query, call_id, top_k, search, reply)
  /\ UNCHANGED <<env, g_client, g_model, chunkVars, storeVars>>

\* SalesCopilot.summarise_call (copilot.py lines 46-55)
CopilotSummariseCall(call_id) ==
  /\ \E fetched \in InjectedFetch(call_id), reply \in LLMReplies :
       resp' = SummariseCall("copilot", Gen, call_id, fetched, reply)
  /\ UNCHANGED <<env, g_client, g_model, chunkVars, storeVars>>

QANext ==
  \/ \E e \in Envs : SetEnv(e)
  \/ \E q \in Queries, cid \in QACallIds, k \in TopKs : GenAnswerQuestion(q, cid, k)
  \/ \E cid \in QACallIds \ {None} : GenSummariseCall(cid)
  \/ \E q \in Queries, cid \in QACallIds, k \in TopKs : CopilotAnswerQuestion(q, cid, k)
  \/ \E cid \in QACallIds \ {None} : CopilotSummariseCall(cid)

SpecQA == QAInit /\ [][QANext]_vars

-----------------------------------------------------------------------------
(* SpecChunk: one call of chunk_text on every small text and parameter pair *)

Alphabet == {"a", ".", " ", "\n"}

RECURSIVE TextsOfLen(_)
TextsOfLen(n) ==
  IF n = 0 THEN { << >> }
  ELSE { Append(t, ch) : t \in TextsOfLen(n - 1), ch \in Alphabet }

Texts == UNION { TextsOfLen(n) : n \in 0 .. MaxLen }

\* the precondition the spec puts on the parameters
ValidParams(chunk_size, overlap) == chunk_size > overlap /\ overlap >= 0

ChunkInit ==
  /\ c_pc = "call"
  /\ c_entry = "none"
  /\ c_text \in Texts
  /\ c_size \in 1 .. MaxChunk
  /\ c_overlap \in 0 .. MaxChunk
  /\ c_start = 0
  /\ c_chunks = << >>
  /\ StoreIdle
  /\ QAOff

\* chunk_text entered directly; "if not text: return []" (lines 14-18)
ChunkTextCall ==
  /\ c_pc = "call"
  /\ c_entry' = "chunk_text"
  /\ c_pc' = IF c_text = << >> THEN "done" ELSE "loop"
  /\ UNCHANGED <<c_text, c_size, c_overlap, c_start, c_chunks>>
  /\ UNCHANGED <<storeVars, qaVars>>

\* TranscriptProcessor.process_file: the text is stripped and the processor's
\* chunk_size and chunk_overlap are passed through (processor.py lines 17-21)
ProcessFileCall ==
  /\ c_pc = "call"
  /\ c_entry' = "process_file"
  /\ c_text' = PyStrip(c_text)
  /\ c_pc' = IF PyStrip(c_text) = << >> THEN "done" ELSE "loop"
  /\ UNCHANGED <<c_size, c_overlap, c_start, c_chunks>>
  /\ UNCHANGED <<storeVars, qaVars>>

\* one iteration of the while loop (lines 19-30)
ChunkStep ==
  /\ c_pc = "loop"
  /\ c_start < Len(c_text)
  /\ Len(c_chunks) < Len(c_text) + MaxStall
  /\ LET end == ChunkEnd(c_text, c_size, c_overlap, c_start)
     IN  /\ c_chunks' = Append(c_chunks, ChunkDict(c_text, c_start, end))
         /\ c_start' = NextStart(c_text, c_overlap, end)
  /\ UNCHANGED <<c_pc, c_entry, c_text, c_size, c_overlap>>
  /\ UNCHANGED <<storeVars, qaVars>>

\* the loop condition fails: return chunks (lines 19, 31)
ChunkReturn ==
  /\ c_pc = "loop"
  /\ c_start >= Len(c_text)
  /\ c_pc' = "done"
  /\ UNCHANGED <<c_entry, c_text, c_size, c_overlap, c_start, c_chunks>>
  /\ UNCHANGED <<storeVars, qaVars>>

ChunkNext == ChunkTextCall \/ ProcessFileCall \/ ChunkStep \/ ChunkReturn

SpecChunk == ChunkInit /\ [][ChunkNext]_vars

-----------------------------------------------------------------------------
(* Claims about chunk_text *)

\* the character offsets the chunks cover
Covered(chunks) ==
  UNION { chunks[i].start .. (chunks[i].end - 1) : i \in 1 .. Len(chunks) }

\* C1: for chunk_size > overlap >= 0, the half-open intervals of the chunks
\* chunk_text returns cover exactly the offsets 0 .. len(T)-1: no gap, and
\* nothing outside the text.
C1_FullCoverage ==
  (c_pc = "done" /\ ValidParams(c_size, c_overlap))
    => Covered(c_chunks) = 0 .. (Len(c_text) - 1)

\* a returned call that cut a window at a boundary and carried an overlap
C1_Witness ==
  /\ c_pc = "done"
  /\ ValidParams(c_size, c_overlap)
  /\ c_overlap > 0
  /\ Len(c_chunks) >= 2
  /\ \E i \in 1 .. Len(c_chunks) :
       /\ c_chunks[i].end < Len(c_text)
       /\ c_chunks[i].end - c_chunks[i].start < c_size

\* C4: a call with overlap >= chunk_size on a text longer than chunk_size is
\* rejected, clamped or returns: no iteration leaves the cursor where it was or
\* moves it back.  (Each chunk records the cursor its iteration started from;
\* the cursor after it is the next chunk's start, or c_start.)
C4_CursorAdvances ==
  (c_entry # "none" /\ c_overlap >= c_size /\ Len(c_text) > c_size)
    => \A i \in 1 .. Len(c_chunks) :
         c_chunks[i].start <
           (IF i < Len(c_chunks) THEN c_chunks[i + 1].start ELSE c_start)

-----------------------------------------------------------------------------
(* Claims about the storage layer *)

\* the chunk records a complete ingestion of raw_text under call_title stores,
\* in the order chunk_text produces them
ExpectedChunks(call_title, raw_text) ==
  LET rc == chunk_text(raw_text, CHUNK_SIZE, CHUNK_OVERLAP)
      x == Sanitize(call_title)
  IN  [i \in 1 .. Len(rc) |->
         [chunk_id |-> x \o <<"_", "_">> \o Digits(i - 1), call_id |-> x,
          call_title |-> call_title, chunk_index |-> i - 1, text |-> rc[i].text,
          start_char |-> rc[i].start, end_char |-> rc[i].end]]

Range(seq) == { seq[i] : i \in 1 .. Len(seq) }

\* the chunks of call_id in a collection, as a set
ChunksOf(coll, call_id) == Range(get_all_chunks_for_call(coll, call_id))

\* C2: after a call_id has been ingested and is ingested again (with the same
\* or another text), get_all_chunks_for_call returns exactly the chunks of the
\* new text, and get_call_ids returns as many ids as before the re-ingestion.
C2_IdempotentReplace ==
  \A p \in Procs :
    (ing[p].pc = "idle" /\ ing[p].result = "ok")
      => /\ get_all_chunks_for_call(store, ing[p].call_id)
              = ExpectedChunks(ing[p].call_title, ing[p].raw_text)
         /\ CollGetIds(ing[p].before, ing[p].call_id) # {}
              => Len(get_call_ids(store)) = Len(get_call_ids(ing[p].before))

\* a re-ingestion that replaced a longer version, filed under another title
C2_Witness ==
  \E p \in Procs :
    /\ ing[p].pc = "idle" /\ ing[p].result = "ok"
    /\ Cardinality(CollGetIds(ing[p].before, ing[p].call_id))
         > Cardinality(CollGetIds(store, ing[p].call_id))
    /\ \E c \in ChunksOf(ing[p].before, ing[p].call_id) :
         c.call_title # ing[p].call_title
    /\ Len(get_call_ids(store)) = 2

\* C5: re-ingestion is all-or-nothing: in every state, and after an ingest that
\* failed at any step, the chunks stored for its call_id are entirely the
\* version stored before the call or entirely the new version.
C5_AllOrNothing ==
  \A p \in Procs :
    ing[p].result \in {"running", "ok", "UpstreamError", "ValueError"}
      => \/ ChunksOf(store, ing[p].call_id) = ChunksOf(ing[p].before, ing[p].call_id)
         \/ ChunksOf(store, ing[p].call_id)
              = Range(ExpectedChunks(ing[p].call_title, ing[p].raw_text))

\* C9: for every call_id in the store the chunk_index values are 0 .. n-1 in
\* the order the chunker produced the chunks of the ingested text, every
\* chunk_id is call_id + "__" + chunk_index, and no two stored chunks share an id.
C9_ChunkIds ==
  /\ \A x \in Range(get_call_ids(store)) :
       LET cs == get_all_chunks_for_call(store, x)
       IN  /\ \A i \in 1 .. Len(cs) :
                /\ cs[i].chunk_index = i - 1
                /\ cs[i].chunk_id = x \o <<"_", "_">> \o Digits(cs[i].chunk_index)
           /\ \E stem \in Stems, content \in Contents :
                LET rc == chunk_text(PyStrip(content), CHUNK_SIZE, CHUNK_OVERLAP)
                IN  /\ Sanitize(stem) = x
                    /\ Len(rc) = Len(cs)
                    /\ \A i \in 1 .. Len(cs) :
                         /\ cs[i].text = rc[i].text
                         /\ cs[i].start_char = rc[i].start
                         /\ cs[i].end_char = rc[i].end
  /\ Cardinality(DOMAIN store)
       = Cardinality({ <<store[id].metadata.call_id, store[id].metadata.chunk_index>> :
                         id \in DOMAIN store })

\* two calls are stored, one of them re-ingested into several chunks
C9_Witness ==
  /\ Len(get_call_ids(store)) = 2
  /\ \E p \in Procs :
       /\ ing[p].pc = "idle" /\ ing[p].result = "ok"
       /\ CollGetIds(ing[p].before, ing[p].call_id) # {}
       /\ Len(get_all_chunks_for_call(store, ing[p].call_id)) >= 2

\* C10: every result of search_chunks called with a call_id filter belongs to
\* that call, and when no stored chunk matches the result is the empty list.
C10_SearchRespectsFilter ==
  (last.op = "search_chunks" /\ last.outcome = "return" /\ last.call_id # None)
    => /\ \A i \in 1 .. Len(last.value) :
            last.value[i].chunk.call_id = last.call_id
       /\ CollGetIds(store, last.call_id) = {} => last.value = << >>

-----------------------------------------------------------------------------
(* Claims about two callers *)

\* C8: ingest_transcript is not guarded against a concurrent ingest of the same
\* call_id.  Two ingests of one call_id that did not overlap leave the chunks
\* of the one that ran last; the witness is the interleaving after which the
\* stored chunks are neither caller's complete set.
C8_OnlyOverlapMixes ==
  \A p, q \in Procs :
    ( /\ p # q
      /\ ing[p].pc = "idle" /\ ing[p].result = "ok"
      /\ ing[q].pc = "idle" /\ ing[q].result = "ok"
      /\ ing[p].call_id = ing[q].call_id
      /\ ~ing[p].overlapped /\ ~ing[q].overlapped )
      => ChunksOf(store, ing[p].call_id)
           \in { Range(ExpectedChunks(ing[r].call_title, ing[r].raw_text)) : r \in {p, q} }

\* both ingests of one call_id have returned and the stored chunks are neither
\* caller's complete chunk set
C8_Witness ==
  \E p, q \in Procs :
    /\ p # q
    /\ ing[p].pc = "idle" /\ ing[p].result = "ok"
    /\ ing[q].pc = "idle" /\ ing[q].result = "ok"
    /\ ing[p].call_id = ing[q].call_id
    /\ ing[p].overlapped /\ ing[q].overlapped
    /\ ChunksOf(store, ing[p].call_id)
         \notin { Range(ExpectedChunks(ing[r].call_title, ing[r].raw_text)) : r \in {p, q} }

-----------------------------------------------------------------------------
(* Claims about answer_question and summarise_call *)

\* the number of times event e occurs in a call's events
Count(events, e) == Cardinality({ i \in 1 .. Len(events) : events[i] = e })

\* resp is how a call of either operation ended
Called == resp.op \in {"answer_question", "summarise_call"}

\* the retrieval of the call was empty: no search result, or a transcript that
\* is empty or white space only
EmptyRetrieval ==
  /\ Called
  /\ resp.retrieved.raise = "none"
  /\ IF resp.op = "answer_question" THEN resp.retrieved.value = << >>
     ELSE PyStrip(JoinLines(resp.retrieved.value)) = << >>

\* C3: an empty retrieval never aborts and never reaches the LLM:
\* answer_question on no search results returns the fixed fallback answer with
\* no sources, summarise_call on an empty or white-space transcript returns the
\* fixed "No transcript found for '<call_id>'." answer with no sources, and in
\* both cases the generation backend is invoked zero times and nothing is raised
C3_EmptyRetrievalFallback ==
  EmptyRetrieval =>
    /\ resp.outcome = "return"
    /\ resp.answer = IF resp.op = "answer_question" THEN FallbackAnswer
                     ELSE NoTranscriptAnswer(resp.call_id)
    /\ resp.sources = << >>
    /\ resp.events = <<"store">>
    /\ resp.request = NoRequest

\* a filtered question found nothing in a collection that holds other calls
C3_Witness ==
  /\ EmptyRetrieval
  /\ resp.op = "answer_question"
  /\ resp.impl = "generation"
  /\ store # EmptyCollection
  /\ resp.answer = FallbackAnswer

\* the backend named by the environment cannot be used: the provider is not
\* supported, or its API key is missing
Misconfigured(e) ==
  \/ get_provider_info(e).raise # "none"
  \/ ~get_provider_info(e).key

\* a call of the generation module made when the backend was misconfigured and
\* no client had been created
MisconfiguredCall ==
  /\ Called
  /\ resp.impl = "generation"
  /\ Misconfigured(resp.before.env)
  /\ resp.before.client = NoClient

\* C6: a misconfigured backend (unsupported LLM_PROVIDER, or a missing API key
\* for a provider that needs one) is reported before any request: a call made
\* under it attempts no vector-store search and no LLM call and does not
\* complete, the configuration error is all that happens
C6_ConfigErrorBeforeAnyRequest ==
  MisconfiguredCall =>
    /\ resp.outcome = "raise"
    /\ resp.events = <<"config error">>

\* C7: an error raised by the vector store or by the generation backend
\* reaches the caller as that same error, with no retry and no translation:
\* the store is called exactly once per operation, the generation backend at
\* most once, and never after the store call of the same operation has failed
C7_ErrorsPropagate ==
  Called =>
    /\ Count(resp.events, "store") = 1
    /\ resp.events[1] = "store"
    /\ Count(resp.events, "llm") <= 1
    /\ resp.retrieved.raise # "none" =>
         /\ resp.outcome = "raise"
         /\ resp.error = resp.retrieved.raise
         /\ Count(resp.events, "llm") = 0
         /\ resp.request = NoRequest
    /\ resp.replied.raise \notin {"none", "no request"} =>
         /\ resp.outcome = "raise"
         /\ resp.error = resp.replied.raise
    /\ Count(resp.events, "llm") = 1 <=> resp.replied # NoReply

\* the backend failed on a summary request and the caller got its error
C7_Witness ==
  /\ Called
  /\ resp.op = "summarise_call"
  /\ resp.replied.raise = "APIError"
  /\ resp.outcome = "raise"
  /\ resp.error = "APIError"
  /\ resp.events = <<"store", "llm">>

-----------------------------------------------------------------------------
(* Further claims about the storage layer *)

\* the call_ids that own at least one stored chunk, among those a file name of
\* the model can give and one that none gives
OwningCallIds(coll) ==
  { x \in { Sanitize(stem) : stem \in Stems } \cup { <<"z">> } :
      \E id \in DOMAIN coll : coll[id].metadata.call_id = x }

\* C11: after any sequence of ingestions get_call_ids() returns a strictly
\* ascending list (sorted, no duplicate) of exactly the call_ids that own at
\* least one stored chunk, and [] for an empty store
C11_CallIdsSortedExact ==
  (last.op = "get_call_ids" /\ last.outcome = "return")
    => /\ \A i, j \in 1 .. Len(last.value) :
            i < j => StrLess(last.value[i], last.value[j])
       /\ Range(last.value) = OwningCallIds(store)
       /\ store = EmptyCollection => last.value = << >>

\* get_call_ids() listed two calls, one of which owns several chunks
C11_Witness ==
  /\ last.op = "get_call_ids"
  /\ last.outcome = "return"
  /\ Len(last.value) = 2
  /\ Cardinality(DOMAIN store) >= 3

-----------------------------------------------------------------------------
(* Further claims about chunk_text *)

\* the one chunk that spans the whole of text
WholeText(text) == <<[text |-> text, start |-> 0, end |-> Len(text)]>>

\* C12 as the specification states it: for every text T with
\* len(T) <= chunk_size, chunk_text returns exactly one chunk, equal to
\* {text: T, start: 0, end: len(T)}
C12_ShortTextOneChunk ==
  (c_pc = "done" /\ Len(c_text) <= c_size) => c_chunks = WholeText(c_text)

\* C12: for every non-empty text T with len(T) <= chunk_size, whatever the
\* overlap, chunk_text returns exactly one chunk, equal to
\* {text: T, start: 0, end: len(T)}; for the empty text it returns []
C12_ShortNonEmptyTextOneChunk ==
  (c_pc = "done" /\ Len(c_text) <= c_size)
    => c_chunks = IF c_text = << >> THEN << >> ELSE WholeText(c_text)

\* a text shorter than chunk_size came back as one chunk, with an overlap that
\* would have mattered had there been a second window
C12_Witness ==
  /\ c_pc = "done"
  /\ c_entry = "chunk_text"
  /\ Len(c_text) >= 2
  /\ Len(c_text) < c_size
  /\ c_overlap > 0
  /\ c_chunks = WholeText(c_text)

-----------------------------------------------------------------------------
(* Further claims about answer_question and the generation layer *)

\* resp is how an answer_question ended whose search returned results
AnsweredFromResults ==
  /\ Called
  /\ resp.op = "answer_question"
  /\ resp.retrieved.raise = "none"
  /\ resp.retrieved.value # << >>

\* C13: when search_chunks returns a non-empty list R, answer_question invokes
\* the generation backend exactly once, after the search, with temperature
\* 0.2, and returns the backend's output as the answer with R itself as the
\* sources: the same results in the same order
C13_AnswerKeepsResults ==
  AnsweredFromResults
    => /\ resp.events = <<"store", "llm">>
       /\ resp.request.temperature = "0.2"
       /\ resp.request.system = QASystemPrompt
       /\ resp.request.user.context = format_context(resp.retrieved.value)
       /\ resp.replied.raise = "none" =>
            /\ resp.outcome = "return"
            /\ resp.answer = IF resp.impl = "copilot" THEN resp.replied.text
                             ELSE PyStrip(resp.replied.text)
            /\ resp.sources = resp.retrieved.value

\* C14: the backend is selected once: after the client has been created every
\* later generate call is dispatched to the implementation of the provider the
\* client was created for, whatever LLM_PROVIDER is at the time of the call
C14_DispatchFollowsClient ==
  ( /\ Called
    /\ resp.impl = "generation"
    /\ resp.before.client # NoClient
    /\ resp.retrieved.raise = "none"
    /\ ~EmptyRetrieval )
    => /\ Count(resp.events, "llm") = 1
       /\ resp.request.api = IF resp.before.client.sdk = "genai"
                             THEN "models.generate_content"
                             ELSE "chat.completions.create"
       /\ resp.request.backend = resp.before.client.backend

-----------------------------------------------------------------------------
(* Further claims about ingest_transcript *)

\* C15: ingesting a path that does not exist raises FileNotFoundError
\* immediately, before any vector-store operation: no get, delete or add is
\* issued and the stored chunks of every call are unchanged
C15_MissingPathTouchesNothing ==
  \A p \in Procs :
    ing[p].result = "FileNotFoundError"
      => /\ ing[p].pc = "idle"
         /\ ing[p].ops = << >>
         /\ store = ing[p].before

\* a missing path was given while the collection held two calls
C15_Witness ==
  \E p \in Procs :
    /\ ing[p].result = "FileNotFoundError"
    /\ Len(get_call_ids(store)) = 2
    /\ store = ing[p].before

\* the call_ids with a chunk in either of two collections
CallIdsOf(coll_a, coll_b) == Range(get_call_ids(coll_a)) \cup Range(get_call_ids(coll_b))

\* C19: an ingestion of call_id x changes only the chunks of x: at every step
\* of it and however it ends, for every other call_id y the chunks
\* get_all_chunks_for_call(y) returns are those it returned before the
\* ingestion, and y stays in get_call_ids()
C19_OtherCallsUntouched ==
  \A p \in Procs :
    ing[p].result # "none"
      => \A y \in CallIdsOf(ing[p].before, store) \ {ing[p].call_id} :
           /\ get_all_chunks_for_call(store, y)
                = get_all_chunks_for_call(ing[p].before, y)
           /\ y \in Range(get_call_ids(store))

\* a call was re-ingested with another text while another call was stored
C19_Witness ==
  \E p \in Procs :
    /\ ing[p].pc = "idle" /\ ing[p].result = "ok"
    /\ CollGetIds(ing[p].before, ing[p].call_id) # {}
    /\ ChunksOf(store, ing[p].call_id) # ChunksOf(ing[p].before, ing[p].call_id)
    /\ \E y \in Range(get_call_ids(store)) \ {ing[p].call_id} :
         ChunksOf(store, y) # {}

-----------------------------------------------------------------------------
(* Further claims about the loop of chunk_text *)

\* the cursor after iteration i: the start of the next chunk, or the cursor now
CursorAfter(i) == IF i < Len(c_chunks) THEN c_chunks[i + 1].start ELSE c_start

\* chunk i was cut at a boundary: it is not the last window and is shorter
\* than chunk_size
Shrunk(i) ==
  /\ c_chunks[i].start + c_size < Len(c_text)
  /\ c_chunks[i].end - c_chunks[i].start < c_size

\* C16: for chunk_size > overlap >= 0 chunk_text terminates: each iteration
\* strictly increases the cursor, also when the window is shrunk to a boundary,
\* so there are at most len(T) iterations, the loop is never still running
\* after len(T) of them, and the last chunk ends at len(T)
C16_CursorStrictlyIncreases ==
  (c_entry # "none" /\ ValidParams(c_size, c_overlap))
    => /\ \A i \in 1 .. Len(c_chunks) : c_chunks[i].start < CursorAfter(i)
       /\ Len(c_chunks) <= Len(c_text)
       /\ c_start <= Len(c_text)
       /\ (c_pc = "loop" /\ c_start < Len(c_text)) => Len(c_chunks) < Len(c_text)
       /\ (c_pc = "done" /\ c_text # << >>)
            => /\ c_start = Len(c_text)
               /\ c_chunks[Len(c_chunks)].end = Len(c_text)

\* a call returned after a window was shrunk and an overlap carried forward
C16_Witness ==
  /\ c_pc = "done"
  /\ ValidParams(c_size, c_overlap)
  /\ c_overlap > 0
  /\ \E i \in 1 .. Len(c_chunks) : Shrunk(i)
  /\ c_chunks[Len(c_chunks)].end = Len(c_text)
  /\ c_start = Len(c_text)

\* the offsets k of the window [start, start + chunk_size) of a text at which
\* a line break stands, or a '.' followed by a space inside the window
BoundariesIn(text, start, chunk_size) ==
  { k \in start .. (start + chunk_size - 1) :
      \/ text[k + 1] = "\n"
      \/ /\ text[k + 1] = "."
         /\ k + 1 <= start + chunk_size - 1
         /\ text[k + 2] = " " }

\* the largest of a set of offsets, -1 for none
LastOf(offsets) ==
  IF offsets = {} THEN -1 ELSE CHOOSE k \in offsets : \A j \in offsets : j <= k

\* C17: in every non-final window (start + chunk_size < len(T)), with b the
\* larger of the last line break and the last ". " inside
\* T[start : start+chunk_size]: if b > start + overlap the chunk ends at b + 1,
\* so its last character is that line break or that '.'; otherwise it ends at
\* start + chunk_size.  A non-final chunk shorter than chunk_size ends on a
\* line break or a '.'
C17_BoundaryRule ==
  \A i \in 1 .. Len(c_chunks) :
    (c_chunks[i].start >= 0 /\ c_chunks[i].start + c_size < Len(c_text))
      => LET start == c_chunks[i].start
             b == LastOf(BoundariesIn(c_text, start, c_size))
         IN  /\ c_chunks[i].end = IF b > start + c_overlap THEN b + 1
                                  ELSE start + c_size
             /\ Shrunk(i) => c_text[c_chunks[i].end] \in {"\n", "."}

\* a window was cut after the '.' of a ". ", with a line break earlier in it
C17_Witness ==
  \E i \in 1 .. Len(c_chunks) :
    /\ Shrunk(i)
    /\ c_text[c_chunks[i].end] = "."
    /\ \E k \in (c_chunks[i].start + 1) .. (c_chunks[i].end - 1) : c_text[k] = "\n"

\* C18: for a non-empty text and chunk_size > overlap >= 0 the chunk list is
\* well formed: the first chunk starts at 0, every chunk has
\* 1 <= end - start <= chunk_size and text = T[start:end], every chunk after
\* the first starts overlap characters before the end of the one before it,
\* and a text of length L > chunk_size yields at least
\* ceil((L - overlap) / (chunk_size - overlap)) chunks
C18_WellFormedChunks ==
  (c_entry # "none" /\ c_text # << >> /\ ValidParams(c_size, c_overlap))
    => /\ c_chunks # << >> => c_chunks[1].start = 0
       /\ \A i \in 1 .. Len(c_chunks) :
            /\ 1 <= c_chunks[i].end - c_chunks[i].start
            /\ c_chunks[i].end - c_chunks[i].start <= c_size
            /\ c_chunks[i].text =
                 [k \in 1 .. (c_chunks[i].end - c_chunks[i].start) |->
                    c_text[c_chunks[i].start + k]]
            /\ i > 1 => c_chunks[i].start = c_chunks[i - 1].end - c_overlap
       /\ (c_pc = "done" /\ Len(c_text) > c_size)
            => Len(c_chunks) * (c_size - c_overlap) >= Len(c_text) - c_overlap

\* a text longer than chunk_size came back in three chunks or more that overlap
C18_Witness ==
  /\ c_pc = "done"
  /\ ValidParams(c_size, c_overlap)
  /\ c_overlap > 0
  /\ Len(c_text) > c_size
  /\ Len(c_chunks) >= 3
  /\ c_chunks[2].start = c_chunks[1].end - c_overlap

=============================================================================
